---- MODULE Spec2Model ----
(***************************************************************************)
(* The Bluetooth component of metaframe-bluetooth: the connection state    *)
(* machine driven by scan/reset, the hook effects that resolve the service *)
(* and attach the value-change listeners, and the payload decoder.         *)
(*                                                                         *)
(* One step of the model is one run-to-completion task of the page's event *)
(* loop: a click handler or the continuation of an awaited platform        *)
(* promise, followed by the re-render it schedules and the hook effects of *)
(* that render (run in declaration order, repeated while an effect sets    *)
(* state).                                                                 *)
(***************************************************************************)
EXTENDS Integers, Sequences, FiniteSets, TLC

(* ------------------------------ bounds -------------------------------- *)
\* scan invocations in one behaviour
MaxScans == 2
\* runs of the service-resolution effect that start a resolution
MaxResolves == 2
\* characteristics the platform enumerates for one service
MaxChars == 2
\* code units of a characteristic identifier
MaxUUIDLen == 1
\* bytes of a notification payload handed to the decoder
MaxPayloadLen == 6
\* changes of the serviceUUID option in one behaviour
MaxChanges == 1

(* ------------------------------ values -------------------------------- *)
\* JavaScript's undefined, for the string-valued option
undefined == "undefined"
\* handles are numbered by the flow that obtained them; 0 is "no handle"
NoHandle == 0

\* the values the serviceUUID option takes
ServiceUUIDs == {undefined, "180d", "battery"}
\* JavaScript truthiness of an optional string
Truthy(s) == s # undefined /\ s # ""

\* UTF-16 code units of the identifiers: "a", "b"
CodeUnits == {97, 98}
UUIDs == UNION {[1..n -> CodeUnits] : n \in 1..MaxUUIDLen}

States == {"Begin", "Scanning", "Connecting", "ChoosingService", "GettingService",
           "GettingCharacteristics", "FinishedSuccess", "FinishedError"}

InfoBlob(st, msg) == [status |-> st, message |-> msg]

VARIABLES
  hasBluetooth,     \* navigator.bluetooth is present
  serviceUUID,      \* optionsInHashParams.serviceUUID of the last render
  options,          \* the alias entries of optionsInHashParams of the last render
  displayoutputs,   \* optionsInHashParams.displayoutputs of the last render
  keyAliases,       \* useState<{[key in string]: string} | undefined>
  bluetoothState,   \* useState<State>
  characteristics,  \* useState<BluetoothRemoteGATTCharacteristic[]>
  server,           \* useState<BluetoothRemoteGATTServer | undefined>
  service,          \* useState<BluetoothRemoteGATTService | undefined>
  info,             \* useState<InfoBlob[]>
  scans,            \* the invocations of scan: position and local infoBlobs
  resolves,         \* the async flows started by the server/serviceUUID effect
  listeners,        \* characteristics carrying a characteristicvaluechanged listener
  published,        \* history: what the last step handed to metaframe.setOutputs
  changes           \* history: how often the serviceUUID option was changed

vars == <<hasBluetooth, serviceUUID, options, displayoutputs, keyAliases,
          bluetoothState, characteristics, server, service, info, scans,
          resolves, listeners, published, changes>>

(* --------------------------- component state --------------------------- *)
\* the values held by the useState hooks
Cur == [bluetoothState |-> bluetoothState, characteristics |-> characteristics,
        server |-> server, service |-> service, info |-> info]

\* reset without its setInfo([])
reset_KeepsInfo(r) == [r EXCEPT !.service = NoHandle, !.server = NoHandle,
                                !.characteristics = <<>>,
                                !.bluetoothState = "Begin"]

\* reset(): five setters
reset(r) == [r EXCEPT !.service = NoHandle, !.server = NoHandle,
                      !.characteristics = <<>>, !.info = <<>>,
                      !.bluetoothState = "Begin"]

\* setBluetoothState
setBluetoothState(r, s) == [r EXCEPT !.bluetoothState = s]

(* -------------------------------- scan --------------------------------- *)
\* The local state of one scan invocation: the component state it writes,
\* its infoBlobs, where it is suspended, and whether requestDevice was called.
ScanCtx(r, blobs, pc, requested) ==
  [r |-> r, infoBlobs |-> blobs, pc |-> pc, requested |-> requested]

\* appendInfo of scan: extend the local infoBlobs and setInfo them
scanAppendInfo(p, blob) ==
  LET blobs == Append(p.infoBlobs, blob)
  IN [p EXCEPT !.infoBlobs = blobs, !.r.info = blobs]

\* setBluetoothState inside a scan
scanSetState(p, s) == [p EXCEPT !.r = setBluetoothState(p.r, s)]

\* scanNoBluetooth without its setBluetoothState(State.FinishedError)
scanNoBluetooth_KeepsState(p) ==
  [scanAppendInfo(p, InfoBlob("error", "Browser does not support bluetooth"))
     EXCEPT !.pc = "done"]

\* the branch of scan taken when navigator.bluetooth is missing
scanNoBluetooth(p) ==
  [scanAppendInfo(scanSetState(p, "FinishedError"),
                  InfoBlob("error", "Browser does not support bluetooth"))
     EXCEPT !.pc = "done"]

\* the call of requestDevice, where scan suspends first
scanRequestDevice(p, uuid) ==
  [scanAppendInfo(p, InfoBlob("info", "Requesting Bluetooth Device...serviceUUID=" \o uuid))
     EXCEPT !.pc = "requestDevice", !.requested = TRUE]

\* scan, from its invocation to its first suspension or return
scanBegin(r, uuid, bluetooth) ==
  LET p0 == ScanCtx(setBluetoothState(reset(r), "Scanning"), <<>>, "start", FALSE)
      p1 == scanAppendInfo(p0, InfoBlob("info", "scanning..."))
  IN IF ~bluetooth THEN scanNoBluetooth(p1) ELSE scanRequestDevice(p1, uuid)

\* scan resumed after requestDevice resolved; device = FALSE is a null device
scanDeviceResolved(p, device) ==
  LET p1 == scanSetState(p, "Connecting")
  IN IF ~device
       THEN [scanAppendInfo(scanSetState(p1, "FinishedError"),
                            InfoBlob("error", "No device found"))
               EXCEPT !.pc = "done"]
       ELSE [scanAppendInfo(p1, InfoBlob("info", "Connecting to GATT Server..."))
               EXCEPT !.pc = "connect"]

\* scan resumed after device.gatt.connect() resolved with the server handle h
scanConnectResolved(p, h) ==
  LET p1 == scanSetState(scanAppendInfo(p, InfoBlob("info", "Getting Service...")),
                         "ChoosingService")
  IN [p1 EXCEPT !.r.server = h, !.pc = "done"]

\* scanCatch without its appendInfo
scanCatch_NoEntry(p) == [scanSetState(p, "FinishedError") EXCEPT !.pc = "done"]

\* the catch block of scan: a rejected requestDevice or connect
scanCatch(p) ==
  [scanAppendInfo(scanSetState(p, "FinishedError"), InfoBlob("error", "error"))
     EXCEPT !.pc = "done"]

\* what a scan invocation keeps between steps: nothing of its closure once
\* it returned
ScanFlow(p) ==
  [pc |-> p.pc, infoBlobs |-> IF p.pc = "done" THEN <<>> ELSE p.infoBlobs,
   requested |-> p.requested]

\* the context of a suspended scan resumed on the current component state
ResumeScan(f) == ScanCtx(Cur, scans[f].infoBlobs, scans[f].pc, scans[f].requested)

(* ------------------- the server/serviceUUID effect --------------------- *)
\* a > b on JavaScript strings: by code units, a proper prefix being smaller
RECURSIVE StrGT(_, _)
StrGT(a, b) ==
  IF a = <<>> THEN FALSE
  ELSE IF b = <<>> THEN TRUE
  ELSE IF Head(a) # Head(b) THEN Head(a) > Head(b)
  ELSE StrGT(Tail(a), Tail(b))

\* the comparator handed to characteristics.sort
compareUuid(a, b) == IF StrGT(a.uuid, b.uuid) THEN 1 ELSE IF StrGT(b.uuid, a.uuid) THEN -1 ELSE 0

\* insert c into the sorted cs, after the elements that do not compare greater
RECURSIVE InsertSorted(_, _)
InsertSorted(cs, c) ==
  IF cs = <<>> THEN <<c>>
  ELSE IF compareUuid(Head(cs), c) > 0 THEN <<c>> \o cs
  ELSE <<Head(cs)>> \o InsertSorted(Tail(cs), c)

\* the characteristics stored as enumerated, without the sort
sortCharacteristics_Unsorted(cs) == cs

\* Array.prototype.sort with compareUuid (a stable sort)
RECURSIVE sortCharacteristics(_)
sortCharacteristics(cs) ==
  IF cs = <<>> THEN <<>>
  ELSE InsertSorted(sortCharacteristics(SubSeq(cs, 1, Len(cs) - 1)), cs[Len(cs)])

\* the characteristic objects getCharacteristics of service h resolves with,
\* in the platform's order: one object per identifier of the service
Enumerated(h, uuids) == [n \in 1..Len(uuids) |-> [uuid |-> uuids[n], svc |-> h]]

\* the orders and identifiers the platform may enumerate: the identifiers of
\* one service are distinct
Enumerations ==
  {u \in UNION {[1..n -> UUIDs] : n \in 0..MaxChars} :
     \A i, j \in DOMAIN u : i # j => u[i] # u[j]}

\* The local state of one run of the effect's async function: the component
\* state it writes, its infoBlobs, where it is suspended, the characteristics
\* it enumerated and the state of each startNotifications promise.
ResolveCtx(r, blobs, pc, chars, subs) ==
  [r |-> r, infoBlobs |-> blobs, pc |-> pc, chars |-> chars, subs |-> subs]

\* appendInfo of the effect: extends the local infoBlobs only
effectAppendInfo(q, blob) == [q EXCEPT !.infoBlobs = Append(q.infoBlobs, blob)]

\* the effect's async function up to await server.getPrimaryService
resolveBegin(r) ==
  effectAppendInfo(ResolveCtx(r, <<>>, "getPrimaryService", <<>>, <<>>),
                   InfoBlob("info", "getPrimaryService"))

\* resolveServiceResolved announcing GettingService
resolveServiceResolved_GettingService(q, h) ==
  [q EXCEPT !.r.bluetoothState = "GettingService", !.r.service = h,
            !.pc = "getCharacteristics"]

\* resumed after getPrimaryService resolved with the service handle h
resolveServiceResolved(q, h) ==
  [q EXCEPT !.r.bluetoothState = "GettingCharacteristics", !.r.service = h,
            !.pc = "getCharacteristics"]

\* resumed after every startNotifications promise resolved
resolveAllStarted(q) ==
  [q EXCEPT !.r.bluetoothState = "FinishedSuccess",
            !.r.info = <<InfoBlob("success", "Connected")>>,
            !.pc = "done"]

\* resolveCharacteristicsResolved waiting for a first subscription also when
\* there is none
resolveCharacteristicsResolved_WaitsForOne(q, cs) ==
  LET sorted == sortCharacteristics(cs)
  IN [q EXCEPT !.r.characteristics = sorted, !.chars = sorted,
               !.subs = [i \in 1..Len(sorted) |-> "pending"],
               !.pc = "startNotifications"]

\* resumed after getCharacteristics resolved with cs: sort, store, subscribe;
\* Promise.all of no promise is resolved at once
resolveCharacteristicsResolved(q, cs) ==
  LET sorted == sortCharacteristics(cs)
      q1 == [q EXCEPT !.r.characteristics = sorted, !.chars = sorted,
                      !.subs = [i \in 1..Len(sorted) |-> "pending"],
                      !.pc = "startNotifications"]
  IN IF sorted = <<>> THEN resolveAllStarted(q1) ELSE q1

\* the catch block of the effect's async function
resolveCatch(q) ==
  [effectAppendInfo([q EXCEPT !.r.bluetoothState = "FinishedError"],
                    InfoBlob("error", "error"))
     EXCEPT !.pc = "done"]

\* the startNotifications promise of the i-th characteristic resolved
subscriptionResolved(q, i) ==
  LET q1 == [q EXCEPT !.subs[i] = "started"]
  IN IF q.pc = "startNotifications" /\ \A j \in DOMAIN q1.subs : q1.subs[j] = "started"
       THEN resolveAllStarted(q1) ELSE q1

\* the startNotifications promise of the i-th characteristic rejected:
\* Promise.all rejects with the first rejection
subscriptionRejected(q, i) ==
  LET q1 == [q EXCEPT !.subs[i] = "rejected"]
  IN IF q.pc = "startNotifications" THEN resolveCatch(q1) ELSE q1

\* what a run of the effect keeps between steps: the closure's server and
\* serviceUUID, and whether reset ran while it was suspended; once it returned,
\* only the characteristic objects it created and their subscriptions
ResolveFlow(q, srv, uuid, discarded) ==
  IF q.pc = "done"
    THEN [pc |-> "done", infoBlobs |-> <<>>, chars |-> q.chars, subs |-> q.subs,
          server |-> NoHandle, serviceUUID |-> undefined, discarded |-> FALSE]
    ELSE [pc |-> q.pc, infoBlobs |-> q.infoBlobs, chars |-> q.chars, subs |-> q.subs,
          server |-> srv, serviceUUID |-> uuid, discarded |-> discarded]

\* the context of a suspended run resumed on the current component state
ResumeResolve(f) ==
  ResolveCtx(Cur, resolves[f].infoBlobs, resolves[f].pc, resolves[f].chars, resolves[f].subs)

\* reset ran: the runs still suspended belong to a discarded session
MarkDiscarded(res) ==
  [f \in DOMAIN res |-> IF res[f].pc # "done" THEN [res[f] EXCEPT !.discarded = TRUE] ELSE res[f]]

\* The characteristic objects of a run that returned are reachable only through
\* the stored characteristic set: once the set is replaced and the listeners
\* are removed, no code sees them or their events again.
Unreachable(res, chars) ==
  [f \in DOMAIN res |->
     IF res[f].pc = "done" /\ res[f].chars # chars
       THEN [res[f] EXCEPT !.chars = <<>>, !.subs = <<>>]
       ELSE res[f]]

(* --------------------------- payload decoding -------------------------- *)
\* c.value: absent, or a DataView over the bytes of the notification
NoValue == [present |-> FALSE, bytes |-> <<>>]
Value(bytes) == [present |-> TRUE, bytes |-> bytes]

\* the values of OutputType: boolean | number[] | undefined | string
Undefined == [type |-> "undefined", bool |-> FALSE, nums |-> <<>>, str |-> <<>>]
Boolean(b) == [type |-> "boolean", bool |-> b, nums |-> <<>>, str |-> <<>>]
Numbers(ns) == [type |-> "number[]", bool |-> FALSE, nums |-> ns, str |-> <<>>]
String(cs) == [type |-> "string", bool |-> FALSE, nums |-> <<>>, str |-> cs]

\* new Float32Array(buffer): element k is read from the k-th group of four
\* bytes, least significant byte first; a float is represented by its 32 bits,
\* written as four bytes with the sign and exponent first
float32Array(bytes) ==
  [k \in 1..(Len(bytes) \div 4) |->
     <<bytes[4*k], bytes[4*k - 1], bytes[4*k - 2], bytes[4*k - 3]>>]

\* the padding character "=" of base64, after the 64 digits 0..63
Pad == 64

\* Unibabel.bufferToBase64: three bytes give four digits, the last group is
\* padded with "="
RECURSIVE bufferToBase64(_)
bufferToBase64(bytes) ==
  IF Len(bytes) = 0 THEN <<>>
  ELSE IF Len(bytes) = 1
    THEN <<bytes[1] \div 4, (bytes[1] % 4) * 16, Pad, Pad>>
  ELSE IF Len(bytes) = 2
    THEN <<bytes[1] \div 4, (bytes[1] % 4) * 16 + bytes[2] \div 16,
           (bytes[2] % 16) * 4, Pad>>
  ELSE <<bytes[1] \div 4, (bytes[1] % 4) * 16 + bytes[2] \div 16,
         (bytes[2] % 16) * 4 + bytes[3] \div 64, bytes[3] % 64>>
       \o bufferToBase64(SubSeq(bytes, 4, Len(bytes)))

\* decodeValue with the single byte tested for truthiness instead of === 1
decodeValue_Truthy(value) ==
  IF value.present
    THEN IF Len(value.bytes) = 1 THEN Boolean(value.bytes[1] # 0)
         ELSE IF Len(value.bytes) % 4 = 0 THEN Numbers(float32Array(value.bytes))
         ELSE String(bufferToBase64(value.bytes))
    ELSE Undefined

\* the listener's decoding of c.value?.buffer
decodeValue(value) ==
  IF value.present
    THEN IF Len(value.bytes) = 1 THEN Boolean(value.bytes[1] = 1)
         ELSE IF Len(value.bytes) % 4 = 0 THEN Numbers(float32Array(value.bytes))
         ELSE String(bufferToBase64(value.bytes))
    ELSE Undefined

(* ----------------------------- key aliases ---------------------------- *)
\* c.uuid as the string that names its option: "a", "b"
CodeUnitString(n) == IF n = 97 THEN "a" ELSE "b"

RECURSIVE uuidString(_)
uuidString(u) ==
  IF Len(u) = 0 THEN "" ELSE CodeUnitString(Head(u)) \o uuidString(Tail(u))

\* The entries of optionsInHashParams other than serviceUUID and
\* displayoutputs: the option named by a characteristic identifier holds the
\* alias of that characteristic, undefined when the option is absent.
AliasKeys == {uuidString(u) : u \in UUIDs}
Aliases == {"x", "y"}
NoAliases == [k \in AliasKeys |-> undefined]

\* The keyAliases effect: the entries of optionsInHashParams whose key differs
\* from the value of serviceUUID.  (The entries "serviceUUID" and
\* "displayoutputs" it also keeps are never looked up: no characteristic
\* identifier has these names.)
newKeyAliases(opts, uuid) ==
  [k \in AliasKeys |-> IF k # uuid THEN opts[k] ELSE undefined]

\* the key of the published entry
outputKey(c, ka) ==
  IF Truthy(ka[uuidString(c.uuid)]) THEN ka[uuidString(c.uuid)]
                                    ELSE uuidString(c.uuid)

\* a listener whose catch block ends the session when the sink throws
listener_FailsSession(r, l, value, throws) ==
  [r |-> IF throws THEN setBluetoothState(r, "FinishedError") ELSE r,
   outputs |-> <<[c |-> l.c, value |-> value,
                  key |-> outputKey(l.c, l.keyAliases),
                  val |-> decodeValue(value)]>>]

\* The listener l (characteristic l.c, closed over l.keyAliases and
\* l.displayoutputs) on a characteristicvaluechanged event, the component
\* state being r: the state it leaves, and its calls of metaframe.setOutputs
\* with the event that caused them.  throws: the sink threw in that call; the
\* catch block logs to the console.  (The diagnostic snapshot written when
\* displayoutputs is set is render state only and is not modelled.)
listener(r, l, value, throws) ==
  [r |-> r,
   outputs |-> <<[c |-> l.c, value |-> value,
                  key |-> outputKey(l.c, l.keyAliases),
                  val |-> decodeValue(value)]>>]

\* A characteristicvaluechanged event of characteristic c: every listener
\* registered on c is called, in the order of registration.
RECURSIVE dispatchEvent(_, _, _, _, _)
dispatchEvent(r, ls, c, value, throws) ==
  IF ls = <<>> THEN [r |-> r, outputs |-> <<>>]
  ELSE IF Head(ls).c = c
    THEN LET h == listener(r, Head(ls), value, throws)
             t == dispatchEvent(h.r, Tail(ls), c, value, throws)
         IN [r |-> t.r, outputs |-> h.outputs \o t.outputs]
  ELSE dispatchEvent(r, Tail(ls), c, value, throws)

(* ------------------------- the listener effect ------------------------- *)
\* metaframe.setOutputs is provided by the MetaframeContext
metaframeSetOutputs == TRUE

\* The body of the listener effect: one listener per characteristic, in the
\* order of the characteristicDisposers; none when it returns early.
attachListeners(chars, ka, disp) ==
  IF ~metaframeSetOutputs \/ Len(chars) = 0 THEN <<>>
  ELSE [i \in 1..Len(chars) |->
          [c |-> chars[i], keyAliases |-> ka, displayoutputs |-> disp]]

\* a cleanup that calls no disposer
listenerCleanup_KeepsAll(ls) == ls

\* the cleanup of the listener effect: every disposer is popped and called
listenerCleanup(ls) == <<>>

\* The listener effect on a render: when one of its dependencies changed, the
\* cleanup of the previous run runs, then the body.
listenerEffect(depsChanged, chars, ka, disp, ls) ==
  IF depsChanged THEN listenerCleanup(ls) \o attachListeners(chars, ka, disp)
                 ELSE ls

(* ------------------------ a render and its effects --------------------- *)
\* the reset effect runs when serviceUUID changed
resetEffectRuns(prevUuid, uuid) == uuid # prevUuid

\* the server/serviceUUID effect starts a resolution when one of its
\* dependencies changed and both are set
resolveEffectStarts(prevServer, prevUuid, srv, uuid) ==
  (srv # prevServer \/ uuid # prevUuid) /\ ~(srv = NoHandle \/ ~Truthy(uuid))

\* The render after a handler left the component state r and the options
\* (serviceUUID uuid, alias entries opts, displayoutputs disp), and its effects
\* in declaration order: the keyAliases effect, the reset effect, the
\* server/serviceUUID effect (on the rendered server), the listener effect
\* (on the rendered keyAliases).  When the keyAliases effect stored a new
\* mapping or the reset effect called reset, their state is rendered next, and
\* the effects whose dependencies changed run again.  pub: the calls of
\* metaframe.setOutputs made by the handler.
CommitAll(r, uuid, opts, disp, res, pub) ==
  LET optionsChanged == uuid # serviceUUID \/ opts # options \/ disp # displayoutputs
      ka == IF optionsChanged THEN newKeyAliases(opts, uuid) ELSE keyAliases
      resetRuns == resetEffectRuns(serviceUUID, uuid)
      starts == resolveEffectStarts(server, serviceUUID, r.server, uuid)
      r1 == IF resetRuns THEN reset(r) ELSE r
      res1 == IF resetRuns THEN MarkDiscarded(res) ELSE res
      res2 == IF starts
                THEN Append(res1, ResolveFlow(resolveBegin(r), r.server, uuid, FALSE))
                ELSE res1
      ls1 == listenerEffect(r.characteristics # characteristics \/ disp # displayoutputs,
                            r.characteristics, keyAliases, disp, listeners)
      ls2 == listenerEffect(optionsChanged \/ r1.characteristics # r.characteristics,
                            r1.characteristics, ka, disp, ls1)
  IN /\ starts => Len(res) < MaxResolves
     /\ serviceUUID' = uuid
     /\ options' = opts
     /\ displayoutputs' = disp
     /\ keyAliases' = ka
     /\ bluetoothState' = r1.bluetoothState
     /\ characteristics' = r1.characteristics
     /\ server' = r1.server
     /\ service' = r1.service
     /\ info' = r1.info
     /\ resolves' = Unreachable(res2, r1.characteristics)
     /\ listeners' = ls2
     /\ published' = pub

\* the render after a handler that leaves the options alone and publishes
\* nothing
Commit(r, uuid, res) == CommitAll(r, uuid, options, displayoutputs, res, <<>>)

(* ------------------------------ the button ----------------------------- *)
\* onClick of the button, by the connection state
buttonOnClick ==
  IF bluetoothState \in {"Begin", "Scanning", "Connecting"} THEN "scan" ELSE "reset"

\* isDisabled of the button
buttonDisabled ==
  CASE bluetoothState = "Begin" -> ~Truthy(serviceUUID)
    [] bluetoothState = "Scanning" -> TRUE
    [] OTHER -> FALSE

\* the hint shown in Begin instead of the label "Scan"
ServiceUUIDRequired == "<= Service UUID required "

\* the text of the button
buttonText ==
  CASE bluetoothState = "Begin" ->
         IF Truthy(serviceUUID) /\ Len(serviceUUID) > 4 THEN "Scan"
                                                        ELSE ServiceUUIDRequired
    [] bluetoothState \in {"Scanning", "Connecting"} -> "Scan"
    [] bluetoothState = "FinishedError" -> "Reset"
    [] OTHER -> "Disconnect"

(* -------------------------------- Init --------------------------------- *)
\* after the component mounted: every effect ran once and returned early
Init ==
  /\ hasBluetooth \in BOOLEAN
  /\ serviceUUID \in ServiceUUIDs
  /\ options = NoAliases
  /\ displayoutputs = FALSE
  /\ keyAliases = newKeyAliases(options, serviceUUID)
  /\ bluetoothState = "Begin"
  /\ characteristics = <<>>
  /\ server = NoHandle
  /\ service = NoHandle
  /\ info = <<>>
  /\ scans = <<>>
  /\ resolves = <<>>
  /\ listeners = <<>>
  /\ published = <<>>
  /\ changes = 0

(* ------------------------------- actions ------------------------------- *)
\* a click on the button while it invokes scan
Scan ==
  /\ buttonOnClick = "scan" /\ ~buttonDisabled
  /\ Len(scans) < MaxScans
  /\ LET p == scanBegin(Cur, serviceUUID, hasBluetooth)
     IN /\ scans' = Append(scans, ScanFlow(p))
        /\ Commit(p.r, serviceUUID, MarkDiscarded(resolves))
  /\ UNCHANGED <<hasBluetooth, changes>>

\* a click on the button while it invokes reset
Reset ==
  /\ buttonOnClick = "reset" /\ ~buttonDisabled
  /\ Commit(reset(Cur), serviceUUID, MarkDiscarded(resolves))
  /\ UNCHANGED <<hasBluetooth, scans, changes>>

\* the host changes the serviceUUID option
ChangeServiceUUIDTo(u) ==
  /\ u # serviceUUID
  /\ changes < MaxChanges
  /\ changes' = changes + 1
  /\ Commit(Cur, u, resolves)
  /\ UNCHANGED <<hasBluetooth, scans>>

ChangeServiceUUID == \E u \in ServiceUUIDs : ChangeServiceUUIDTo(u)

\* a step of scan f that leaves its context p
ScanStep(f, p) ==
  /\ scans' = [scans EXCEPT ![f] = ScanFlow(p)]
  /\ Commit(p.r, serviceUUID, resolves)
  /\ UNCHANGED <<hasBluetooth, changes>>

\* navigator.bluetooth.requestDevice resolves, with a device or with none
RequestDeviceResolvedAt(f, device) ==
  /\ scans[f].pc = "requestDevice"
  /\ ScanStep(f, scanDeviceResolved(ResumeScan(f), device))

RequestDeviceResolved ==
  \E f \in DOMAIN scans, device \in BOOLEAN : RequestDeviceResolvedAt(f, device)

\* navigator.bluetooth.requestDevice rejects (no device chosen, picker cancelled)
RequestDeviceRejectedAt(f) ==
  /\ scans[f].pc = "requestDevice"
  /\ ScanStep(f, scanCatch(ResumeScan(f)))

RequestDeviceRejected == \E f \in DOMAIN scans : RequestDeviceRejectedAt(f)

\* device.gatt.connect() resolves with a new server handle
ConnectResolvedAt(f) ==
  /\ scans[f].pc = "connect"
  /\ ScanStep(f, scanConnectResolved(ResumeScan(f), f))

ConnectResolved == \E f \in DOMAIN scans : ConnectResolvedAt(f)

\* device.gatt.connect() rejects, or device.gatt is missing and the call throws
ConnectRejectedAt(f) ==
  /\ scans[f].pc = "connect"
  /\ ScanStep(f, scanCatch(ResumeScan(f)))

ConnectRejected == \E f \in DOMAIN scans : ConnectRejectedAt(f)

\* a step of the effect's run f that leaves its context q
ResolveStep(f, q) ==
  /\ Commit(q.r, serviceUUID,
            [resolves EXCEPT ![f] = ResolveFlow(q, resolves[f].server,
                                                resolves[f].serviceUUID, resolves[f].discarded)])
  /\ UNCHANGED <<hasBluetooth, scans, changes>>

\* server.getPrimaryService resolves with a new service handle
ServiceResolvedAt(f) ==
  /\ resolves[f].pc = "getPrimaryService"
  /\ ResolveStep(f, resolveServiceResolved(ResumeResolve(f), f))

ServiceResolved == \E f \in DOMAIN resolves : ServiceResolvedAt(f)

\* server.getPrimaryService rejects
ServiceRejectedAt(f) ==
  /\ resolves[f].pc = "getPrimaryService"
  /\ ResolveStep(f, resolveCatch(ResumeResolve(f)))

ServiceRejected == \E f \in DOMAIN resolves : ServiceRejectedAt(f)

\* service.getCharacteristics resolves with the characteristics in some order
CharacteristicsResolvedAt(f, uuids) ==
  /\ resolves[f].pc = "getCharacteristics"
  /\ ResolveStep(f, resolveCharacteristicsResolved(ResumeResolve(f), Enumerated(f, uuids)))

CharacteristicsResolved ==
  \E f \in DOMAIN resolves, uuids \in Enumerations : CharacteristicsResolvedAt(f, uuids)

\* service.getCharacteristics rejects
CharacteristicsRejectedAt(f) ==
  /\ resolves[f].pc = "getCharacteristics"
  /\ ResolveStep(f, resolveCatch(ResumeResolve(f)))

CharacteristicsRejected == \E f \in DOMAIN resolves : CharacteristicsRejectedAt(f)

\* one startNotifications promise resolves
SubscriptionResolvedAt(f, i) ==
  /\ resolves[f].subs[i] = "pending"
  /\ ResolveStep(f, subscriptionResolved(ResumeResolve(f), i))

SubscriptionResolved ==
  \E f \in DOMAIN resolves : \E i \in DOMAIN resolves[f].subs : SubscriptionResolvedAt(f, i)

\* one startNotifications promise rejects
SubscriptionRejectedAt(f, i) ==
  /\ resolves[f].subs[i] = "pending"
  /\ ResolveStep(f, subscriptionRejected(ResumeResolve(f), i))

SubscriptionRejected ==
  \E f \in DOMAIN resolves : \E i \in DOMAIN resolves[f].subs : SubscriptionRejectedAt(f, i)

\* the notifications of characteristic c were started by a run in res
StartedIn(res, c) ==
  \E f \in DOMAIN res :
    \E i \in DOMAIN res[f].chars :
      res[f].chars[i] = c /\ res[f].subs[i] = "started"

\* the notifications of characteristic c were started
Started(c) == StartedIn(resolves, c)

\* the values of the notifications delivered in this specification:
\* no value, one byte, one float (1.0f)
NotifiedValues == {NoValue, Value(<<1>>), Value(<<0, 0, 128, 63>>)}

\* the characteristics that carry a listener
Listening(ls) == {ls[i].c : i \in DOMAIN ls}

\* a characteristicvaluechanged event of characteristic c with value value;
\* throws: metaframe.setOutputs throws when the listener calls it
NotifyOf(c, value, throws) ==
  LET d == dispatchEvent(Cur, listeners, c, value, throws)
  IN /\ Started(c)
     /\ CommitAll(d.r, serviceUUID, options, displayoutputs, resolves, d.outputs)
     /\ UNCHANGED <<hasBluetooth, scans, changes>>

Notify ==
  \E c \in Listening(listeners), value \in NotifiedValues, throws \in BOOLEAN :
    NotifyOf(c, value, throws)

\* the host sets or removes the alias option of the characteristic identifier k
ChangeAliasTo(k, v) ==
  /\ v # options[k]
  /\ CommitAll(Cur, serviceUUID, [options EXCEPT ![k] = v], displayoutputs,
               resolves, <<>>)
  /\ UNCHANGED <<hasBluetooth, scans, changes>>

ChangeAlias == \E k \in AliasKeys, v \in Aliases \cup {undefined} : ChangeAliasTo(k, v)

\* the host toggles the displayoutputs option
ChangeDisplayoutputs ==
  /\ CommitAll(Cur, serviceUUID, options, ~displayoutputs, resolves, <<>>)
  /\ UNCHANGED <<hasBluetooth, scans, changes>>

Next ==
  \/ Scan
  \/ Reset
  \/ ChangeServiceUUID
  \/ RequestDeviceResolved
  \/ RequestDeviceRejected
  \/ ConnectResolved
  \/ ConnectRejected
  \/ ServiceResolved
  \/ ServiceRejected
  \/ CharacteristicsResolved
  \/ CharacteristicsRejected
  \/ SubscriptionResolved
  \/ SubscriptionRejected
  \/ Notify

Spec == Init /\ [][Next]_vars

(* ----------------- the decoder on every bounded payload ---------------- *)
\* the byte values the payloads are drawn from
ByteValues == {0, 1, 255}
Payloads == UNION {[1..n -> ByteValues] : n \in 0..MaxPayloadLen}

\* a session in FinishedSuccess with the one characteristic "a", its
\* notifications started and its listener attached
DecodeInit ==
  LET a == [uuid |-> <<97>>, svc |-> 1]
  IN /\ hasBluetooth = TRUE
     /\ serviceUUID = "180d"
     /\ options = NoAliases
     /\ displayoutputs = FALSE
     /\ keyAliases = newKeyAliases(options, serviceUUID)
     /\ bluetoothState = "FinishedSuccess"
     /\ characteristics = <<a>>
     /\ server = 1
     /\ service = 1
     /\ info = <<InfoBlob("success", "Connected")>>
     /\ scans = <<[pc |-> "done", infoBlobs |-> <<>>, requested |-> TRUE]>>
     /\ resolves = <<[pc |-> "done", infoBlobs |-> <<>>, chars |-> <<a>>,
                      subs |-> <<"started">>, server |-> NoHandle,
                      serviceUUID |-> undefined, discarded |-> FALSE]>>
     /\ listeners = attachListeners(<<a>>, keyAliases, displayoutputs)
     /\ published = <<>>
     /\ changes = 0

\* a characteristicvaluechanged event with any bounded payload, or no value
NotifyPayload ==
  \E c \in Listening(listeners), value \in {NoValue} \cup {Value(b) : b \in Payloads} :
    NotifyOf(c, value, FALSE)

DecodeSpec == DecodeInit /\ [][NotifyPayload]_vars

(* ------------- a session under changes of the other options ----------- *)
\* the service identifiers of these sessions; "a" is also the identifier of
\* a characteristic of the service
SessionServiceUUIDs == {"180d", "a"}

\* the component after the connect of its first scan resolved: ChoosingService
\* with the server handle stored and the first run of the server/serviceUUID
\* effect suspended in getPrimaryService; no alias is configured yet
OptionsInit ==
  \E uuid \in SessionServiceUUIDs :
    LET r0 == [bluetoothState |-> "Begin", characteristics |-> <<>>,
               server |-> NoHandle, service |-> NoHandle, info |-> <<>>]
        p == scanConnectResolved(scanDeviceResolved(scanBegin(r0, uuid, TRUE), TRUE), 1)
    IN /\ hasBluetooth = TRUE
       /\ serviceUUID = uuid
       /\ options = NoAliases
       /\ displayoutputs = FALSE
       /\ keyAliases = newKeyAliases(options, serviceUUID)
       /\ bluetoothState = p.r.bluetoothState
       /\ characteristics = p.r.characteristics
       /\ server = p.r.server
       /\ service = p.r.service
       /\ info = p.r.info
       /\ scans = <<ScanFlow(p)>>
       /\ resolves = <<ResolveFlow(resolveBegin(p.r), p.r.server, uuid, FALSE)>>
       /\ listeners = <<>>
       /\ published = <<>>
       /\ changes = 0

OptionsNext ==
  \/ ChangeAlias
  \/ ChangeDisplayoutputs
  \/ ServiceResolved
  \/ CharacteristicsResolved
  \/ SubscriptionResolved
  \/ SubscriptionRejected
  \/ Notify
  \/ Reset

OptionsSpec == OptionsInit /\ [][OptionsNext]_vars

(* ------------------ one scan on a platform that succeeds -------------- *)
\* the Bluetooth capability is present and a service identifier is configured
HappyInit == Init /\ hasBluetooth /\ Truthy(serviceUUID)

\* the one invocation of scan
HappyScan == scans = <<>> /\ Scan

\* requestDevice resolves with a device
HappyRequestDeviceResolved == \E f \in DOMAIN scans : RequestDeviceResolvedAt(f, TRUE)

\* the host removes the serviceUUID option
HappyRemoveServiceUUID == ChangeServiceUUIDTo(undefined)

\* no reset, no further scan, no rejection
HappyNext ==
  \/ HappyScan
  \/ HappyRemoveServiceUUID
  \/ HappyRequestDeviceResolved
  \/ ConnectResolved
  \/ ServiceResolved
  \/ CharacteristicsResolved
  \/ SubscriptionResolved
  \/ Notify

\* every pending platform operation eventually resolves: a promise that is
\* resolved has its continuation run by the event loop
HappyFairness ==
  /\ WF_vars(HappyRequestDeviceResolved)
  /\ WF_vars(ConnectResolved)
  /\ WF_vars(ServiceResolved)
  /\ WF_vars(CharacteristicsResolved)
  /\ WF_vars(SubscriptionResolved)

HappySpec == HappyInit /\ [][HappyNext]_vars /\ HappyFairness

(* ------------------------------- claims -------------------------------- *)
\* run f of the effect took this step
ResolveStepped(f) ==
  resolves'[f].pc # resolves[f].pc \/ resolves'[f].subs # resolves[f].subs

\* the entries of severity error in a status log
ErrorEntries(log) == {i \in DOMAIN log : log[i].status = "error"}

\* C1: a reset while a run of the service-resolution effect is suspended makes
\* the state Begin at once, and no later step of that discarded run sets the
\* state to GettingCharacteristics, FinishedSuccess or FinishedError or stores
\* a characteristic set or a service handle.
C1_DiscardedRunWritesNothing ==
  [][/\ Reset => bluetoothState' = "Begin"
     /\ \A f \in DOMAIN resolves :
          (resolves[f].discarded /\ ResolveStepped(f)) =>
            /\ bluetoothState' # bluetoothState =>
                 bluetoothState' \notin {"GettingCharacteristics", "FinishedSuccess",
                                         "FinishedError"}
            /\ characteristics' = characteristics
            /\ service' = service]_vars

\* C2: a change of the service identifier in a state other than Begin leaves
\* the state Begin, the status log and the characteristic set empty, no server
\* and no service handle stored, and starts no resolution on the old server.
C2_ServiceChangeResetsAll ==
  [][(serviceUUID' # serviceUUID /\ bluetoothState # "Begin") =>
       /\ bluetoothState' = "Begin"
       /\ info' = <<>>
       /\ characteristics' = <<>>
       /\ server' = NoHandle
       /\ service' = NoHandle
       /\ Len(resolves') = Len(resolves)]_vars

\* C3: every step that leaves a session, to Begin by a reset or a
\* reconfiguration or to FinishedError by an error, releases the value-change
\* listeners, and no notification is decoded and published in Begin or
\* FinishedError.
C3_ListenersReleasedOnExit ==
  [][/\ (bluetoothState' # bluetoothState /\ bluetoothState' \in {"Begin", "FinishedError"}) =>
          listeners' = <<>>
     /\ published' # <<>> => bluetoothState' \notin {"Begin", "FinishedError"}]_vars

\* C4: without navigator.bluetooth, scan ends in FinishedError with exactly
\* one entry of severity error in the status log, and no scan has called
\* requestDevice.
C4_NoBluetoothScanFails ==
  [][(~hasBluetooth /\ Scan) =>
       /\ bluetoothState' = "FinishedError"
       /\ Cardinality(ErrorEntries(info')) = 1
       /\ \A f \in DOMAIN scans' : ~scans'[f].requested /\ scans'[f].pc = "done"]_vars

\* a scan without navigator.bluetooth has ended
C4_Witness ==
  ~hasBluetooth /\ scans # <<>> /\ bluetoothState = "FinishedError"

\* C5: when requestDevice rejects or resolves with no device, or connect
\* rejects, the state becomes FinishedError, the status log becomes the
\* entries that scan had logged followed by one error entry, the scan stores
\* no server handle and returns without setting ChoosingService.
C5_ScanFailure ==
  [][\A f \in DOMAIN scans :
       (RequestDeviceRejectedAt(f) \/ RequestDeviceResolvedAt(f, FALSE) \/ ConnectRejectedAt(f)) =>
         /\ bluetoothState' = "FinishedError"
         /\ Len(info') = Len(scans[f].infoBlobs) + 1
         /\ SubSeq(info', 1, Len(scans[f].infoBlobs)) = scans[f].infoBlobs
         /\ info'[Len(info')].status = "error"
         /\ server' = server
         /\ scans'[f].pc = "done"]_vars

\* a scan whose connect rejected has ended
C5_Witness ==
  /\ bluetoothState = "FinishedError"
  /\ Len(info) = 4
  /\ info[3].message = "Connecting to GATT Server..."
  /\ info[4].status = "error"
  /\ server = NoHandle

\* C6: when getPrimaryService, getCharacteristics or one of the
\* startNotifications promises awaited by Promise.all rejects, the state
\* becomes FinishedError and the status log gains an entry of severity error.
C6_ResolutionFailureLogged ==
  [][\A f \in DOMAIN resolves :
       (\/ ServiceRejectedAt(f)
        \/ CharacteristicsRejectedAt(f)
        \/ /\ resolves[f].pc = "startNotifications"
           /\ \E i \in DOMAIN resolves[f].subs : SubscriptionRejectedAt(f, i)) =>
         /\ bluetoothState' = "FinishedError"
         /\ Len(info') = Len(info) + 1
         /\ info'[Len(info')].status = "error"]_vars

\* C7: FinishedSuccess is entered only by a run of the effect whose enumerated
\* characteristics are the stored characteristic set, after the notifications
\* of every stored characteristic were started; the status log is then exactly
\* one entry, of severity success.
C7_SuccessOnlyWhenSubscribed ==
  [][(bluetoothState # "FinishedSuccess" /\ bluetoothState' = "FinishedSuccess") =>
       /\ \E f \in DOMAIN resolves :
            /\ ResolveStepped(f)
            /\ characteristics' = resolves'[f].chars
       /\ \A i \in DOMAIN characteristics' : StartedIn(resolves', characteristics'[i])
       /\ Len(info') = 1 /\ info'[1].status = "success"]_vars

\* a <= b in the lexicographic order of the code units
LexLeq(a, b) ==
  \/ \E k \in 1..Len(a) :
       /\ k <= Len(b)
       /\ \A j \in 1..(k - 1) : a[j] = b[j]
       /\ a[k] < b[k]
  \/ Len(a) <= Len(b) /\ \A j \in 1..Len(a) : a[j] = b[j]

\* C8: every non-empty characteristic set that is stored is in ascending order
\* of the identifiers and holds exactly the enumerated characteristics,
\* whatever the order of the enumeration.
C8_StoredSetSorted ==
  [][(characteristics' # characteristics /\ characteristics' # <<>>) =>
       /\ \A i, j \in DOMAIN characteristics' :
            i < j => LexLeq(characteristics'[i].uuid, characteristics'[j].uuid)
       /\ \E f \in DOMAIN resolves, uuids \in Enumerations :
            /\ CharacteristicsResolvedAt(f, uuids)
            /\ Len(characteristics') = Len(uuids)
            /\ \A n \in DOMAIN uuids :
                 \E i \in DOMAIN characteristics' :
                   characteristics'[i] = Enumerated(f, uuids)[n]]_vars

\* the characteristics "a" and "b" are stored, in this order
C8_Witness ==
  /\ Len(characteristics) = 2
  /\ characteristics[1].uuid = <<97>>
  /\ characteristics[2].uuid = <<98>>

\* the bytes a base64 string stands for
RECURSIVE Base64Bytes(_)
Base64Bytes(str) ==
  IF Len(str) < 4 THEN <<>>
  ELSE LET b1 == str[1] * 4 + str[2] \div 16
           b2 == (str[2] % 16) * 16 + str[3] \div 4
           b3 == (str[3] % 4) * 64 + str[4]
       IN IF str[3] = Pad THEN <<b1>>
          ELSE IF str[4] = Pad THEN <<b1, b2>>
          ELSE <<b1, b2, b3>> \o Base64Bytes(SubSeq(str, 5, Len(str)))

\* C9: every payload whose length is neither 1 nor a positive multiple of 4
\* (0, 2, 3, 5, 6, 7, ...) is decoded to the base64 string of its bytes; the
\* payload of length 0 too.
C9_OtherLengthsBase64 ==
  \A k \in DOMAIN published :
    LET v == published[k].value
        n == Len(v.bytes)
    IN (v.present /\ n # 1 /\ ~(n > 0 /\ n % 4 = 0)) =>
         /\ published[k].val.type = "string"
         /\ Len(published[k].val.str) = 4 * ((n + 2) \div 3)
         /\ Base64Bytes(published[k].val.str) = v.bytes

\* C10: a payload of one byte is decoded to the boolean "the byte equals 1", a
\* payload of n bytes, n a positive multiple of 4, to a sequence of n/4
\* numbers, and no payload to undefined.
C10_BooleanNumbersUndefined ==
  \A k \in DOMAIN published :
    LET v == published[k].value
        n == Len(v.bytes)
    IN /\ (v.present /\ n = 1) => published[k].val = Boolean(v.bytes[1] = 1)
       /\ (v.present /\ n > 0 /\ n % 4 = 0) =>
            /\ published[k].val.type = "number[]"
            /\ Len(published[k].val.nums) = n \div 4
       /\ ~v.present => published[k].val = Undefined

\* the one byte 255 was published as false
C10_Witness ==
  /\ published # <<>>
  /\ published[1].value = Value(<<255>>)
  /\ published[1].val = Boolean(FALSE)

\* the alias configured for the characteristic identifier u, or u itself
ConfiguredKey(u) ==
  IF Truthy(options[uuidString(u)]) THEN options[uuidString(u)] ELSE uuidString(u)

\* C11: every value-change notification of a characteristic X of the current
\* set sends exactly one publication to the host, a mapping with one entry,
\* whose key is the alias configured for X at the time of the event when one
\* is configured, and X itself when none is.
C11_PublishedUnderAlias ==
  [][\A c \in Listening(listeners), value \in NotifiedValues, throws \in BOOLEAN :
       NotifyOf(c, value, throws) =>
         /\ Len(published') = 1
         /\ published'[1].c = c
         /\ published'[1].key = ConfiguredKey(c.uuid)]_vars

\* the step delivered a value-change notification: only a listener calls the
\* sink, and every listener that is called does
Notified == published' # <<>>

\* C15: a value-change notification event, whatever its payload and also when
\* publishing throws inside the listener, leaves the connection state, the
\* status log, the characteristic set and the server and service handles
\* unchanged.
C15_NotificationFrame ==
  [][Notified =>
       UNCHANGED <<bluetoothState, info, characteristics, server, service>>]_vars

\* a notification without a value was published in a session that had ended
\* in FinishedError with its listeners attached
C15_Witness ==
  /\ published # <<>>
  /\ published[1].value = NoValue
  /\ bluetoothState \in {"GettingCharacteristics", "FinishedError"}

\* C20: with the host output sink available, the characteristics that carry a
\* value-change listener are exactly those of the current characteristic
\* set, each carries exactly one listener, and no notification is published
\* twice, also after the listener effect ran again because the aliases, the
\* diagnostics flag or the characteristic set changed.
C20_OneListenerEach ==
  metaframeSetOutputs =>
    /\ Listening(listeners) = {characteristics[i] : i \in DOMAIN characteristics}
    /\ \A c \in Listening(listeners) :
         Cardinality({i \in DOMAIN listeners : listeners[i].c = c}) = 1
    /\ Len(published) <= 1

\* a notification was published under an alias while the diagnostics flag was
\* set: the effect had run again for both and for the characteristic set
C20_Witness ==
  /\ Len(listeners) = 2
  /\ displayoutputs
  /\ published # <<>>
  /\ published[1].key \in Aliases

\* the component state r is that of a fresh component
IsFresh(r) ==
  /\ r.bluetoothState = "Begin"
  /\ r.server = NoHandle
  /\ r.service = NoHandle
  /\ r.characteristics = <<>>
  /\ r.info = <<>>

\* C12: reset invoked in any of the eight connection states gives, in the same
\* step, state Begin with no server handle, no service handle, an empty
\* characteristic set and an empty status log; FinishedError is not absorbing:
\* in every FinishedError state the button invokes reset and is enabled.
C12_ResetReachesBegin ==
  /\ [](\A s \in States : IsFresh(reset(setBluetoothState(Cur, s))))
  /\ [][(Reset \/ serviceUUID' # serviceUUID) => IsFresh(Cur)']_vars
  /\ [](bluetoothState = "FinishedError" => buttonOnClick = "reset" /\ ~buttonDisabled)

\* Begin again after a scan, by a click on the button and not by a change of
\* the service identifier
C12_Witness ==
  /\ bluetoothState = "Begin"
  /\ scans # <<>>
  /\ changes = 0
  /\ IsFresh(Cur)

\* C13: whenever the connection state is Begin, Scanning, Connecting or
\* FinishedError, no server handle and no service handle is stored.
C13_HandlesOnlyInLiveSession ==
  bluetoothState \in {"Begin", "Scanning", "Connecting", "FinishedError"} =>
    server = NoHandle /\ service = NoHandle

\* the position of a state in Scanning -> Connecting -> ChoosingService ->
\* GettingCharacteristics -> FinishedSuccess, 0 for a state outside of it
Rank(s) ==
  CASE s = "Scanning" -> 1
    [] s = "Connecting" -> 2
    [] s = "ChoosingService" -> 3
    [] s = "GettingCharacteristics" -> 4
    [] s = "FinishedSuccess" -> 5
    [] OTHER -> 0

\* invocation f of scan was resumed in this step
ScanStepped(f) == scans'[f].pc # scans[f].pc

\* the step resumed a suspended flow; it is no invocation of scan or reset
FlowStepped ==
  /\ Len(scans') = Len(scans)
  /\ \/ \E f \in DOMAIN scans : ScanStepped(f)
     \/ \E f \in DOMAIN resolves : resolves[f].pc # "done" /\ ResolveStepped(f)

\* C14: between two invocations of reset or scan the connection state only
\* advances along Scanning -> Connecting -> ChoosingService ->
\* GettingCharacteristics -> FinishedSuccess or moves to FinishedError, and
\* the completion of a scan that was followed by a later scan never writes the
\* connection state, the server handle or the status log.
C14_NoRacingTransitions ==
  [][FlowStepped =>
       /\ \/ bluetoothState' = bluetoothState
          \/ bluetoothState' = "FinishedError"
          \/ Rank(bluetoothState) > 0 /\ Rank(bluetoothState') > Rank(bluetoothState)
       /\ \A f \in DOMAIN scans :
            (f < Len(scans) /\ ScanStepped(f)) =>
              UNCHANGED <<bluetoothState, server, info>>]_vars

\* C16: every change of the status log is the replacement by the empty log,
\* the replacement by the single success entry, or the previous log extended
\* by exactly one entry at its end.  (An invocation of scan empties the log
\* and then extends it entry by entry; its step is exempt.)
C16_LogAppendOnly ==
  [][(info' # info /\ Len(scans') = Len(scans)) =>
       \/ info' = <<>>
       \/ info' = <<InfoBlob("success", "Connected")>>
       \/ /\ Len(info') = Len(info) + 1
          /\ SubSeq(info', 1, Len(info)) = info]_vars

\* C17: in Begin, whenever the button shows the hint to configure a service
\* identifier instead of "Scan", the button is disabled.
C17_HintMeansDisabled ==
  (bluetoothState = "Begin" /\ buttonText = ServiceUUIDRequired) => buttonDisabled

\* C19: the connection state is never GettingService.
C19_GettingServiceUnreachable == bluetoothState # "GettingService"

\* the service was resolved and stored: the state passed from ChoosingService
\* to GettingCharacteristics
C19_Witness ==
  /\ bluetoothState = "GettingCharacteristics"
  /\ service # NoHandle
  /\ \E f \in DOMAIN resolves : resolves[f].pc = "getCharacteristics"

\* C18: with the Bluetooth capability present, a service identifier
\* configured and left unchanged, every platform operation resolving and no
\* reset or further scan, a scan eventually reaches FinishedSuccess, also when
\* no characteristic is enumerated; and while no service identifier is
\* configured, a session whose connect succeeded stays in ChoosingService.
C18_HappyPathLiveness ==
  /\ (scans # <<>>) ~> (bluetoothState = "FinishedSuccess" \/ ~Truthy(serviceUUID))
  /\ [][(bluetoothState = "ChoosingService" /\ ~Truthy(serviceUUID)
           /\ serviceUUID' = serviceUUID) =>
          bluetoothState' = "ChoosingService"]_vars

\* the scan reached FinishedSuccess with an empty characteristic set
C18_Witness ==
  /\ bluetoothState = "FinishedSuccess"
  /\ characteristics = <<>>
  /\ Truthy(serviceUUID)
  /\ service # NoHandle
  /\ changes = 0

====
